---- MODULE Spec2Model ----
(***************************************************************************)
(* Model of app.py: the "Build KMZ" handler of the QGIS -> DJI WPML mapper *)
(* and its helper points_from_geojson.                                     *)
(*                                                                         *)
(* Representation.                                                         *)
(*  - A float is a scaled integer: longitude/latitude in 1e-8 degree,      *)
(*    altitude in 1e-3 metre.  A formatted decimal is the integer it       *)
(*    shows: "{:.7f}" yields units of 1e-7 degree, "{:.2f}" units of 1e-2  *)
(*    metre.                                                               *)
(*  - An XML element is a record [id, ns, local, text, kids].  id stands   *)
(*    for the object identity of an element parsed from the seed (> 0);    *)
(*    elements the run creates (SubElement, deepcopy) have id 0, their     *)
(*    identity is never compared by the code.  text is a record            *)
(*    [label, nums]: the non-numeric part of the text and the decimal      *)
(*    numbers it shows, in order.                                          *)
(*  - The bytes of an archive member are a record [kind, decl, tree, raw]: *)
(*    kind "xml" for a well-formed XML document (decl: it starts with an   *)
(*    XML declaration), kind "raw" for any other byte string.              *)
(***************************************************************************)
EXTENDS Integers, Sequences, FiniteSets, TLC

\* ------------------------------------------------------------------ bounds
MaxFeatures == 3
MaxSeedRecords == 2

\* ------------------------------------------------------------ XML elements
KML == "kml"
WPML == "wpml"

Txt(label, nums) == [label |-> label, nums |-> nums]
NoText == Txt("", <<>>)

Elem(id, ns, local, text, kids) ==
    [id |-> id, ns |-> ns, local |-> local, text |-> text, kids |-> kids]

\* the absent element (Python None)
None == Elem(-1, "", "", NoText, <<>>)

\* ET.SubElement(parent, tag): a new empty element appended to parent.kids
SubElement(ns, local) == Elem(0, ns, local, NoText, <<>>)

\* str.endswith on an element tag "{uri}local"; the local names of the model
\* that end in the given suffix
TagEndsWith(e, suffix) ==
    CASE suffix = "Point"    -> e.local \in {"Point", "waypointPoiPoint"}
      [] suffix = "Style"    -> e.local \in {"Style"}
      [] suffix = "styleUrl" -> e.local \in {"styleUrl"}
      [] OTHER               -> e.local = suffix

\* ------------------------------------------------------ number formatting
\* round x / d to the nearest integer, ties to even (what "%.Nf" prints)
RoundDiv(x, d) ==
    LET q == x \div d
        r == x % d
    IN  IF 2 * r < d THEN q
        ELSE IF 2 * r > d THEN q + 1
        ELSE IF q % 2 = 0 THEN q ELSE q + 1

\* f"{lon:.7f}" for lon in 1e-8 degree: the number of 1e-7 degree printed
Fmt7(v) == RoundDiv(v, 10)
\* f"{alt:.2f}" for alt in 1e-3 metre: the number of 1e-2 metre printed
Fmt2(v) == RoundDiv(v, 10)

\* f"{lon:.7f},{lat:.7f},{alt:.2f}"
FormatCoords(lon, lat, alt) == Txt("", <<Fmt7(lon), Fmt7(lat), Fmt2(alt)>>)

\* ------------------------------------------------------- point features
\* str.lower() on the geometry type strings of the model
Lower(s) ==
    CASE s \in {"Point", "point", "POINT"} -> "point"
      [] s = "LineString"                  -> "linestring"
      [] s = "MultiPoint"                  -> "multipoint"
      [] OTHER                              -> s

\* One entry of gj["features"].  geometry / properties say whether the key is
\* absent, JSON null, or an object; gtype, coordinates, has_alt and alt_m are
\* read only when the object is there.
Feature(geometry, gtype, coordinates, properties, has_alt, alt_m) ==
    [geometry |-> geometry, gtype |-> gtype, coordinates |-> coordinates,
     properties |-> properties, has_alt |-> has_alt, alt_m |-> alt_m]

FeaturePointAlt  == Feature("object", "Point", <<1012345674, 2076543216, 99000>>,
                            "object", TRUE, 45504)
FeaturePointBare == Feature("object", "POINT", <<-1020000000, 2080000000>>,
                            "object", FALSE, 0)
FeaturePointNoProps == Feature("object", "Point", <<300000004, -400000006>>,
                               "absent", FALSE, 0)
FeatureLine      == Feature("object", "LineString", <<1, 2>>, "object", TRUE, 12000)
FeatureNullGeom  == Feature("null", "", <<>>, "object", TRUE, 20000)
FeatureNullProps == Feature("object", "Point", <<500000000, 600000000>>,
                            "null", FALSE, 0)

FeatureSamples ==
    {FeaturePointAlt, FeaturePointBare, FeaturePointNoProps,
     FeatureLine, FeatureNullGeom, FeatureNullProps}

\* The uploaded points file: kind "invalid" is not JSON, "nofeatures" is a JSON
\* object without a "features" key, "ok" has the feature list.
PointsFile(kind, features) == [kind |-> kind, features |-> features]

SeqsUpTo(S, n) == UNION {[1..k -> S] : k \in 0..n}

PointsFiles ==
    {PointsFile("invalid", <<>>), PointsFile("nofeatures", <<>>)}
    \cup {PointsFile("ok", fs) : fs \in SeqsUpTo(FeatureSamples, MaxFeatures)}

\* st.checkbox / st.number_input: None when the box is not ticked
NoOverride == [on |-> FALSE, value |-> 0]
Override(v) == [on |-> TRUE, value |-> v]
OverrideValues == {7000}
Overrides == {NoOverride} \cup {Override(v) : v \in OverrideValues}

\* the altitude used when the feature has no alt_m (30, in 1e-3 metre)
DefaultAlt == 30000

Pt(lon, lat, alt) == [lon |-> lon, lat |-> lat, alt |-> alt]

\* One pass of the loop body of points_from_geojson: raised names the exception
\* the body raises ("" for none), skip says the feature is not a point.
FeatureStep(f, altitude_override) ==
    LET out(raised, skip, pt) == [raised |-> raised, skip |-> skip, pt |-> pt]
        nopt == Pt(0, 0, 0)
    IN  IF f.geometry = "absent" THEN out("KeyError", FALSE, nopt)
        ELSE IF f.geometry = "null" THEN out("TypeError", FALSE, nopt)
        ELSE IF Lower(f.gtype) # "point" THEN out("", TRUE, nopt)
        ELSE IF Len(f.coordinates) < 2 THEN out("ValueError", FALSE, nopt)
        ELSE IF altitude_override.on
             THEN out("", FALSE, Pt(f.coordinates[1], f.coordinates[2],
                                    altitude_override.value))
        ELSE IF f.properties = "null" THEN out("AttributeError", FALSE, nopt)
        ELSE out("", FALSE,
                 Pt(f.coordinates[1], f.coordinates[2],
                    IF f.properties = "object" /\ f.has_alt
                    THEN f.alt_m ELSE DefaultAlt))

\* points_from_geojson(file, altitude_override): the exception it raises, or
\* the list of (lon, lat, alt) of the point features in feature order
points_from_geojson(file, altitude_override) ==
    LET res(raised, pts) == [raised |-> raised, pts |-> pts]
    IN  IF file.kind = "invalid" THEN res("JSONDecodeError", <<>>)
        ELSE IF file.kind = "nofeatures" THEN res("KeyError", <<>>)
        ELSE
          LET steps == [i \in 1..Len(file.features) |->
                            FeatureStep(file.features[i], altitude_override)]
              bad   == {i \in 1..Len(steps) : steps[i].raised # ""}
              IsPt(s) == ~s.skip
              kept  == SelectSeq(steps, IsPt)
          IN  IF bad # {}
              THEN res(steps[CHOOSE i \in bad : \A j \in bad : i <= j].raised, <<>>)
              ELSE res("", [k \in 1..Len(kept) |-> kept[k].pt])

\* --------------------------------------------------------- element trees
\* Element.iter(): the element and all its descendants, in document order
RECURSIVE Iter(_), IterAll(_)
Iter(e) == <<e>> \o IterAll(e.kids)
IterAll(kids) ==
    IF kids = <<>> THEN <<>> ELSE Iter(Head(kids)) \o IterAll(Tail(kids))

HasChild(e, ns, local) ==
    \E i \in 1..Len(e.kids) : e.kids[i].ns = ns /\ e.kids[i].local = local

\* the first child with the given tag, or None: Element.find("ns:local")
Child(e, ns, local) ==
    IF HasChild(e, ns, local)
    THEN e.kids[CHOOSE i \in 1..Len(e.kids) :
                   /\ e.kids[i].ns = ns /\ e.kids[i].local = local
                   /\ \A j \in 1..(i - 1) :
                          ~(e.kids[j].ns = ns /\ e.kids[j].local = local)]
    ELSE None

\* the predicate of the path kml:Placemark[kml:Point]
IsWaypoint(e) == e.ns = KML /\ e.local = "Placemark" /\ HasChild(e, KML, "Point")

\* root.findall(".//kml:Placemark[kml:Point]", KML_NS): the matching
\* descendants of root (root itself excluded), in document order
FindWaypoints(root) == SelectSeq(Tail(Iter(root)), IsWaypoint)

\* root.find(".//ns:local"): the first matching descendant, or None
FindFirst(root, ns, local) ==
    LET Match(e) == e.ns = ns /\ e.local = local
        found == SelectSeq(Tail(Iter(root)), Match)
    IN  IF found = <<>> THEN None ELSE found[1]

\* The Document lookup of the handler: a kml:Document descendant, else the root
\* when it is a kml:Document, else a Document without namespace, else None
FindDocument(root) ==
    LET d == FindFirst(root, KML, "Document")
    IN  IF d # None THEN d
        ELSE IF root.ns = KML /\ root.local = "Document" THEN root
        ELSE FindFirst(root, "", "Document")

\* "for elem in root.iter(): if pm in elem: elem.remove(pm); break": pm leaves
\* the child list of its parent, when the parent is still reachable from root.
\* An element has one parent, so at most one child list changes.
RECURSIVE RemoveElement(_, _)
RemoveElement(e, pm) ==
    IF \E i \in 1..Len(e.kids) : e.kids[i].id = pm.id
    THEN LET Other(k) == k.id # pm.id
         IN  [e EXCEPT !.kids = SelectSeq(e.kids, Other)]
    ELSE [e EXCEPT !.kids = [i \in 1..Len(e.kids) |-> RemoveElement(e.kids[i], pm)]]

\* "for pm in placemarks: ..." the removal pass over the list found before
RECURSIVE RemoveAll(_, _)
RemoveAll(root, pms) ==
    IF pms = <<>> THEN root
    ELSE RemoveAll(RemoveElement(root, Head(pms)), Tail(pms))

\* copy.deepcopy(child), and the element tree read back from bytes: the same
\* tags, texts and children under no identity of the seed
RECURSIVE DeepCopy(_)
DeepCopy(e) ==
    [e EXCEPT !.id = 0, !.kids = [i \in 1..Len(e.kids) |-> DeepCopy(e.kids[i])]]

\* the element `parent` of the tree gets the elements `more` appended to its
\* children (ET.SubElement(parent, ...) once per new placemark); a parent that
\* is no longer in the tree changes nothing in it
RECURSIVE AppendTo(_, _, _)
AppendTo(e, parent, more) ==
    IF e.id = parent.id
    THEN [e EXCEPT !.kids = e.kids \o more]
    ELSE [e EXCEPT !.kids = [i \in 1..Len(e.kids) |-> AppendTo(e.kids[i], parent, more)]]

\* the number of elements of a tree
RECURSIVE Size(_), SizeAll(_)
Size(e) == 1 + SizeAll(e.kids)
SizeAll(kids) == IF kids = <<>> THEN 0 ELSE Size(Head(kids)) + SizeAll(Tail(kids))

\* fresh identities 'first', 'first + 1', ... in document order
RECURSIVE Number(_, _), NumberAll(_, _)
Number(e, first) == [e EXCEPT !.id = first, !.kids = NumberAll(e.kids, first + 1)]
NumberAll(kids, first) ==
    IF kids = <<>> THEN <<>>
    ELSE <<Number(Head(kids), first)>>
         \o NumberAll(Tail(kids), first + Size(Head(kids)))

\* ------------------------------------------------------------ member bytes
XmlBytes(decl, tree) == [kind |-> "xml", decl |-> decl, tree |-> tree, raw |-> ""]
RawBytes(raw) == [kind |-> "raw", decl |-> FALSE, tree |-> None, raw |-> raw]

\* ET.fromstring(content): raises ParseError unless the bytes are well-formed
\* XML; the elements of the tree are new objects
ParseFails(content) == content.kind # "xml"
fromstring(content) == Number(content.tree, 1)

\* ET.tostring(root, encoding="utf-8", xml_declaration=True)
tostring(root) == XmlBytes(TRUE, DeepCopy(root))

\* ------------------------------------------------------------ seed archives
E(ns, local, text, kids) == Elem(0, ns, local, text, kids)
Num(n) == Txt("", <<n>>)

\* The k-th waypoint record of an exported mission (k = 1, 2, ...).  In
\* waylines.wpml the coordinates are 2D and the height is wpml:executeHeight;
\* in template.kml the record also has a name and a style.
SeedRecord(dialect, k) ==
    IF dialect = "waylines"
    THEN E(KML, "Placemark", NoText,
           << E(KML, "Point", NoText,
                <<E(KML, "coordinates", Txt("", <<1130000000 + k, 520000000 + k>>), <<>>)>>),
              E(WPML, "index", Num(k - 1), <<>>),
              E(WPML, "executeHeight", Num(5000 + 100 * k), <<>>),
              E(WPML, "waypointSpeed", Num(500 + 100 * k), <<>>) >>)
    ELSE E(KML, "Placemark", NoText,
           << E(KML, "name", Txt("Waypoint", <<k>>), <<>>),
              E(KML, "styleUrl", Txt("#waypointStyle", <<>>), <<>>),
              E(KML, "Point", NoText,
                <<E(KML, "coordinates",
                    Txt("", <<1130000000 + k, 520000000 + k, 5000 + 100 * k>>), <<>>)>>),
              E(WPML, "index", Num(k), <<>>),
              E(WPML, "height", Num(5000 + 100 * k), <<>>) >>)

SeedRecords(dialect, n) == [k \in 1..n |-> SeedRecord(dialect, k)]

\* a point placemark that is no waypoint of the route (a home marker)
Marker(label) ==
    E(KML, "Placemark", NoText,
      << E(KML, "name", Txt(label, <<>>), <<>>),
         E(KML, "Point", NoText,
           <<E(KML, "coordinates", Txt("", <<1129999999, 519999999, 0>>), <<>>)>>) >>)

\* the path of the route: a placemark without a Point
PathLine ==
    E(KML, "Placemark", NoText,
      <<E(KML, "LineString", NoText,
          <<E(KML, "coordinates", Txt("path", <<>>), <<>>)>>)>>)

RouteFolder(dialect, n) ==
    E(KML, "Folder", NoText,
      <<E(WPML, "templateId", Num(0), <<>>)>> \o SeedRecords(dialect, n))

\* kml > Document > (missionConfig, Folder > records): the exported layout
DocStd(dialect, n) ==
    E(KML, "kml", NoText,
      <<E(KML, "Document", NoText,
          <<E(WPML, "missionConfig", NoText, <<>>), RouteFolder(dialect, n)>>)>>)

\* the root element is the Document
DocRoot(dialect, n) ==
    E(KML, "Document", NoText,
      <<E(WPML, "missionConfig", NoText, <<>>)>> \o SeedRecords(dialect, n))

\* no Document element at all
DocNone(dialect, n) == E(KML, "kml", NoText, <<RouteFolder(dialect, n)>>)

\* a Document element outside the kml namespace
DocPlain(dialect, n) ==
    E(KML, "kml", NoText, <<E("", "Document", NoText, <<RouteFolder(dialect, n)>>)>>)

\* point placemarks also under the Document and in a second folder
DocMixed(dialect, n) ==
    E(KML, "kml", NoText,
      <<E(KML, "Document", NoText,
          << Marker("Home"),
             RouteFolder(dialect, n),
             E(KML, "Folder", NoText, <<Marker("POI")>>),
             PathLine >>)>>)

NotXml == RawBytes("not xml")

WaylinesContents ==
    {XmlBytes(TRUE, DocStd("waylines", n)) : n \in 0..MaxSeedRecords}
    \cup {XmlBytes(TRUE, DocRoot("waylines", MaxSeedRecords)),
          XmlBytes(FALSE, DocNone("waylines", MaxSeedRecords)),
          XmlBytes(TRUE, DocPlain("waylines", 1)),
          XmlBytes(TRUE, DocMixed("waylines", MaxSeedRecords)),
          NotXml}

TemplateContents ==
    {XmlBytes(TRUE, DocStd("template", 0)),
     XmlBytes(FALSE, DocStd("template", MaxSeedRecords)),
     XmlBytes(TRUE, DocNone("template", MaxSeedRecords)),
     XmlBytes(TRUE, DocMixed("template", 1)),
     NotXml}

Entry(name, data) == [name |-> name, data |-> data]
Resource == Entry("wpmz/res/image.png", RawBytes("png"))

\* the uploaded seed: kind "zip" with its entries in archive order, or
\* "notzip" for a file zipfile.ZipFile cannot open
Zip(entries) == [kind |-> "zip", entries |-> entries]
NotZip == [kind |-> "notzip", entries |-> <<>>]

Seeds ==
    {Zip(<<Entry("wpmz/waylines.wpml", w), Entry("wpmz/template.kml", t), Resource>>) :
        w \in WaylinesContents, t \in TemplateContents}
    \cup {Zip(<<Resource, Entry("wpmz/waylines.wpml", XmlBytes(TRUE, d))>>) :
            d \in {DocStd("waylines", MaxSeedRecords), DocStd("waylines", 0),
                   DocNone("waylines", 1), DocNone("waylines", 0)}}
    \cup {Zip(<<Entry("wpmz/template.kml", XmlBytes(TRUE, DocStd("template", 1))),
                Resource>>),
          Zip(<<Resource,
                Entry("old/Waylines.WPML", XmlBytes(TRUE, DocStd("waylines", 1))),
                Entry("wpmz/waylines.wpml", XmlBytes(TRUE, DocStd("waylines", MaxSeedRecords))),
                Entry("old/Template.KML", XmlBytes(TRUE, DocMixed("template", 1))),
                Entry("wpmz/template.kml", XmlBytes(TRUE, DocStd("template", MaxSeedRecords)))>>),
          NotZip}

\* n.lower().endswith(suffix) on the entry names of the model
LowerEndsWith(name, suffix) ==
    CASE suffix = "waylines.wpml" ->
            name \in {"wpmz/waylines.wpml", "old/Waylines.WPML"}
      [] suffix = "template.kml" ->
            name \in {"wpmz/template.kml", "old/Template.KML"}
      [] OTHER -> FALSE

\* zin.namelist()
namelist(zin) == [i \in 1..Len(zin.entries) |-> zin.entries[i].name]

\* zin.read(name)
read(zin, name) ==
    zin.entries[CHOOSE i \in 1..Len(zin.entries) : zin.entries[i].name = name].data

\* ------------------------------------------------- the "Build KMZ" handler
\* the children of `template` the waylines loop copies: all but those whose
\* tag ends in "Point"
CopiedChildren(template) ==
    LET Keep(c) == ~TagEndsWith(c, "Point")
        kept == SelectSeq(template.kids, Keep)
    IN  [j \in 1..Len(kept) |-> DeepCopy(kept[j])]

\* the children of the first template.kml placemark the loop copies
CopiedStyle(template) ==
    LET Keep(c) == TagEndsWith(c, "Style") \/ TagEndsWith(c, "styleUrl")
        kept == SelectSeq(template.kids, Keep)
    IN  [j \in 1..Len(kept) |-> DeepCopy(kept[j])]

\* A waylines loop body that names every new placemark "Waypoint {i+1}", as the
\* template.kml loop does.
NewWaylinesPlacemarkNamed(i, pt, template_placemark) ==
    LET name   == [SubElement(KML, "name") EXCEPT !.text = Txt("Waypoint", <<i + 1>>)]
        coords == [SubElement(KML, "coordinates") EXCEPT
                       !.text = FormatCoords(pt.lon, pt.lat, pt.alt)]
        point  == [SubElement(KML, "Point") EXCEPT !.kids = <<coords>>]
    IN  [SubElement(KML, "Placemark") EXCEPT
            !.kids = <<name, point>> \o
                     (IF template_placemark # None
                      THEN CopiedChildren(template_placemark) ELSE <<>>)]

\* The body of "for i, (lon, lat, alt) in enumerate(points)" for waylines.wpml:
\* a new Placemark with a Point, its coordinates text, and then the copied
\* children of the template placemark (none without a template).  i is the
\* 0-based position; the body does not use it.
NewWaylinesPlacemark(i, pt, template_placemark) ==
    LET coords == [SubElement(KML, "coordinates") EXCEPT
                       !.text = FormatCoords(pt.lon, pt.lat, pt.alt)]
        point  == [SubElement(KML, "Point") EXCEPT !.kids = <<coords>>]
    IN  [SubElement(KML, "Placemark") EXCEPT
            !.kids = <<point>> \o
                     (IF template_placemark # None
                      THEN CopiedChildren(template_placemark) ELSE <<>>)]

\* The body of the same loop for template.kml: name "Waypoint {i+1}", Point
\* with coordinates, then the style children of the first old placemark
NewTemplatePlacemark(i, pt, template_placemarks) ==
    LET name   == [SubElement(KML, "name") EXCEPT !.text = Txt("Waypoint", <<i + 1>>)]
        coords == [SubElement(KML, "coordinates") EXCEPT
                       !.text = FormatCoords(pt.lon, pt.lat, pt.alt)]
        point  == [SubElement(KML, "Point") EXCEPT !.kids = <<coords>>]
    IN  [SubElement(KML, "Placemark") EXCEPT
            !.kids = <<name, point>> \o
                     (IF Len(template_placemarks) > 0
                      THEN CopiedStyle(template_placemarks[1]) ELSE <<>>)]

\* "len(points) < 2": too few points for a mission
TooFewPoints(points) == Len(points) < 2

\* the template record of the waylines rewrite
TemplatePlacemark(placemarks) ==
    IF placemarks # <<>> THEN placemarks[1] ELSE None

NoDownload == [offered |-> FALSE, entries |-> <<>>]

\* What one run of the handler leaves: the st.error messages shown, the archive
\* behind the download button, and the locals root / template_root / points as
\* they are when the run ends (None / empty when the run did not get there).
Outcome(errors, download, root, template_root, points) ==
    [errors |-> errors, download |-> download, root |-> root,
     template_root |-> template_root, points |-> points]

Failed(errors, root, template_root, points) ==
    Outcome(errors, NoDownload, root, template_root, points)

NoOutcome == Outcome(<<>>, NoDownload, None, None, <<>>)

\* the rewrite of template.kml, lines 266-311: [raised, tree]
RewriteTemplate(template_content, points) ==
    IF ParseFails(template_content) THEN [raised |-> TRUE, tree |-> None]
    ELSE
      LET template_root       == fromstring(template_content)
          template_placemarks == FindWaypoints(template_root)
          cleared             == RemoveAll(template_root, template_placemarks)
          template_doc        == FindDocument(cleared)
          new == [k \in 1..Len(points) |->
                      NewTemplatePlacemark(k - 1, points[k], template_placemarks)]
      IN  [raised |-> FALSE,
           tree   |-> IF template_doc # None
                      THEN AppendTo(cleared, template_doc, new)
                      ELSE cleared]

\* A writer that replaces every entry whose name has one of the two suffixes,
\* not only the two members the run parsed.
WriteArchiveBySuffix(zin, wpml_name, kml_name, root, template_root) ==
    [n \in 1..Len(zin.entries) |->
        LET name == zin.entries[n].name
        IN  IF LowerEndsWith(name, "waylines.wpml")
            THEN Entry(name, tostring(root))
            ELSE IF kml_name # "" /\ LowerEndsWith(name, "template.kml")
                    /\ template_root # None
            THEN Entry(name, tostring(template_root))
            ELSE Entry(name, read(zin, name))]

\* the writer loop, lines 316-331
WriteArchive(zin, wpml_name, kml_name, root, template_root) ==
    [n \in 1..Len(zin.entries) |->
        LET name == zin.entries[n].name
        IN  IF name = wpml_name
            THEN Entry(name, tostring(root))
            ELSE IF kml_name # "" /\ name = kml_name /\ template_root # None
            THEN Entry(name, tostring(template_root))
            ELSE Entry(name, read(zin, name))]

\* the handler from the parsed waylines.wpml on, lines 164-345
Rewrite(zin, wpml_name, kml_name, root, pts_file, altitude_override) ==
    LET placemarks == FindWaypoints(root)
        extracted  == points_from_geojson(pts_file, altitude_override)
        points     == extracted.pts
        document   == FindDocument(root)
    IN  IF extracted.raised = "JSONDecodeError"
        THEN Failed(<<"invalid_geojson">>, root, None, <<>>)
        ELSE IF extracted.raised # ""
        THEN Failed(<<"processing_error">>, root, None, <<>>)
        ELSE IF TooFewPoints(points)
        THEN Failed(<<"need_two_points">>, root, None, points)
        ELSE IF document = None
        THEN Failed(<<"no_document", "processing_error">>, root, None, points)
        ELSE
          LET template_placemark == TemplatePlacemark(placemarks)
              cleared == RemoveAll(root, placemarks)
              new == [k \in 1..Len(points) |->
                          NewWaylinesPlacemark(k - 1, points[k], template_placemark)]
              rewritten == AppendTo(cleared, document, new)
              template  == IF kml_name # ""
                           THEN RewriteTemplate(read(zin, kml_name), points)
                           ELSE [raised |-> FALSE, tree |-> None]
          IN  IF template.raised
              THEN Failed(<<"invalid_xml">>, rewritten, None, points)
              ELSE Outcome(<<>>,
                           [offered |-> TRUE,
                            entries |-> WriteArchive(zin, wpml_name, kml_name,
                                                     rewritten, template.tree)],
                           rewritten, template.tree, points)

\* the whole handler, lines 133-372
Build(seed_file, pts_file, altitude_override) ==
    IF seed_file.kind # "zip"
    THEN Failed(<<"processing_error">>, None, None, <<>>)
    ELSE
      LET IsWpml(n)  == LowerEndsWith(n, "waylines.wpml")
          IsKml(n)   == LowerEndsWith(n, "template.kml")
          wpml_files == SelectSeq(namelist(seed_file), IsWpml)
          kml_files  == SelectSeq(namelist(seed_file), IsKml)
      IN  IF wpml_files = <<>>
          THEN Failed(<<"no_waylines">>, None, None, <<>>)
          ELSE
            LET wpml_name    == wpml_files[1]
                kml_name     == IF kml_files # <<>> THEN kml_files[1] ELSE ""
                wpml_content == read(seed_file, wpml_name)
            IN  IF ParseFails(wpml_content)
                THEN Failed(<<"invalid_xml">>, None, None, <<>>)
                ELSE Rewrite(seed_file, wpml_name, kml_name,
                             fromstring(wpml_content), pts_file, altitude_override)

\* ----------------------------------------------------------------- state
VARIABLES
    seed,               \* st.file_uploader: the seed KMZ, or NoSeed
    pts_file,           \* st.file_uploader: the points file, or NoPoints
    altitude_override,  \* checkbox + number input: None or the altitude
    pressed,            \* the script run was started by the Build KMZ button
    out                 \* what that run left on the page

vars == <<seed, pts_file, altitude_override, pressed, out>>

NoSeed == [kind |-> "none", entries |-> <<>>]
NoPoints == PointsFile("none", <<>>)

Init ==
    /\ seed = NoSeed
    /\ pts_file = NoPoints
    /\ altitude_override = NoOverride
    /\ pressed = FALSE
    /\ out = NoOutcome

\* Any widget change reruns the script with the button not pressed: the
\* messages and the download button of the previous run are gone.
UploadSeed ==
    /\ seed = NoSeed
    /\ \E z \in Seeds : seed' = z
    /\ pressed' = FALSE
    /\ out' = NoOutcome
    /\ UNCHANGED <<pts_file, altitude_override>>

UploadPoints ==
    /\ pts_file = NoPoints
    /\ \E f \in PointsFiles : pts_file' = f
    /\ pressed' = FALSE
    /\ out' = NoOutcome
    /\ UNCHANGED <<seed, altitude_override>>

\* The user clears an uploader.  The altitude widgets are rendered only under
\* "if seed and pts_file", so their state goes with the file.
RemoveSeed ==
    /\ seed # NoSeed
    /\ seed' = NoSeed
    /\ altitude_override' = NoOverride
    /\ pressed' = FALSE
    /\ out' = NoOutcome
    /\ UNCHANGED pts_file

RemovePoints ==
    /\ pts_file # NoPoints
    /\ pts_file' = NoPoints
    /\ altitude_override' = NoOverride
    /\ pressed' = FALSE
    /\ out' = NoOutcome
    /\ UNCHANGED seed

\* the altitude widgets exist only when both files are uploaded
SetOverride ==
    /\ seed # NoSeed
    /\ pts_file # NoPoints
    /\ \E o \in Overrides : altitude_override' = o
    /\ pressed' = FALSE
    /\ out' = NoOutcome
    /\ UNCHANGED <<seed, pts_file>>

BuildKMZ ==
    /\ seed # NoSeed
    /\ pts_file # NoPoints
    /\ pressed' = TRUE
    /\ out' = Build(seed, pts_file, altitude_override)
    /\ UNCHANGED <<seed, pts_file, altitude_override>>

Next ==
    \/ UploadSeed
    \/ UploadPoints
    \/ RemoveSeed
    \/ RemovePoints
    \/ SetOverride
    \/ BuildKMZ

Spec == Init /\ [][Next]_vars

\* The same machine with points files at the limits of the point count.
BoundaryCounts == {0, 1, 2, 1000, 1001}

BoundaryFeature(i) ==
    CASE i % 3 = 0 -> FeaturePointAlt
      [] i % 3 = 1 -> FeaturePointBare
      [] OTHER     -> FeaturePointNoProps

BoundaryFiles ==
    {PointsFile("ok", [i \in 1..n |-> BoundaryFeature(i)]) : n \in BoundaryCounts}

UploadBoundaryPoints ==
    /\ pts_file = NoPoints
    /\ \E f \in BoundaryFiles : pts_file' = f
    /\ pressed' = FALSE
    /\ out' = NoOutcome
    /\ UNCHANGED <<seed, altitude_override>>

NextBoundary ==
    \/ UploadSeed
    \/ UploadBoundaryPoints
    \/ RemoveSeed
    \/ RemovePoints
    \/ SetOverride
    \/ BuildKMZ

SpecBoundary == Init /\ [][NextBoundary]_vars

\* ------------------------------------------------- terms of the properties
\* the run of the Build KMZ button ended with the download button shown
Succeeded == pressed /\ out.download.offered

\* the run ended with an error message and without a download button
Aborted == pressed /\ ~out.download.offered /\ out.errors # <<>>

\* the first entry name of the seed with the suffix, "" without one
FirstNamed(suffix) ==
    LET Has(n) == LowerEndsWith(n, suffix)
        found == SelectSeq(namelist(seed), Has)
    IN  IF found = <<>> THEN "" ELSE found[1]

WpmlName == FirstNamed("waylines.wpml")
KmlName == FirstNamed("template.kml")

\* the seed member as the handler parses it
SeedTree(name) == fromstring(read(seed, name))

\* the documents a successful run rewrote: before and after
RewrittenDocs ==
    {[dialect |-> "waylines", before |-> SeedTree(WpmlName), after |-> out.root]}
    \cup (IF KmlName # ""
          THEN {[dialect |-> "template", before |-> SeedTree(KmlName),
                 after |-> out.template_root]}
          ELSE {})

\* the numbers of the coordinates text of a waypoint record
CoordsOf(rec) == Child(Child(rec, KML, "Point"), KML, "coordinates").text.nums

WaypointChildren(e) == SelectSeq(e.kids, IsWaypoint)

\* The route folder of a document: among the kml:Folder elements with at least
\* one waypoint record as a child, the one with most of them, a folder holding
\* a wpml element counting 100 more; the first one wins a tie; None without.
FolderScore(f) ==
    Len(WaypointChildren(f))
    + (IF \E i \in 1..Len(Iter(f)) : Iter(f)[i].ns = WPML THEN 100 ELSE 0)

RouteFolderOf(tree) ==
    LET IsCandidate(e) ==
            e.ns = KML /\ e.local = "Folder" /\ WaypointChildren(e) # <<>>
        cands == SelectSeq(Iter(tree), IsCandidate)
    IN  IF cands = <<>> THEN None
        ELSE cands[CHOOSE i \in 1..Len(cands) :
                     /\ \A j \in 1..Len(cands) :
                            FolderScore(cands[j]) <= FolderScore(cands[i])
                     /\ \A j \in 1..(i - 1) :
                            FolderScore(cands[j]) < FolderScore(cands[i])]

\* the element of `tree` with the identity of e, None when it is not there
SameElement(tree, e) ==
    LET Is(x) == x.id = e.id
        found == SelectSeq(Iter(tree), Is)
    IN  IF found = <<>> THEN None ELSE found[1]

\* the waypoint records of the rewritten document that are in the folder where
\* the seed had its route
RouteRecords(doc) ==
    LET folder == SameElement(doc.after, RouteFolderOf(doc.before))
    IN  IF folder = None THEN <<>> ELSE WaypointChildren(folder)

\* ---------------------------------------------------------------------- C1
\* C1 (as claimed): after a successful run with N >= 2 points, each rewritten
\* document has exactly N waypoint records inside its route folder, none of
\* the records of the seed remains anywhere in the document, and the k-th
\* record carries the longitude and latitude of the k-th point.
C1_NRecordsInRouteFolder ==
    Succeeded =>
        \A doc \in RewrittenDocs :
            LET recs == RouteRecords(doc)
                all  == FindWaypoints(doc.after)
            IN  /\ Len(recs) = Len(out.points)
                /\ Len(all) = Len(out.points)
                /\ \A k \in 1..Len(all) : all[k].id = 0
                /\ \A k \in 1..Len(recs) :
                       /\ CoordsOf(recs[k])[1] = Fmt7(out.points[k].lon)
                       /\ CoordsOf(recs[k])[2] = Fmt7(out.points[k].lat)

\* ---------------------------------------------------------------------- C2
\* the number in the wpml:index child of a record, <<>> without such a child
IndexOf(rec) == Child(rec, WPML, "index").text.nums

\* C2 (as claimed): after a successful run, record i (0-based) of waylines.wpml
\* has index i and record i of template.kml has index i + 1.
C2_IndexingLaw ==
    Succeeded =>
        \A doc \in RewrittenDocs :
            LET all == FindWaypoints(doc.after)
            IN  \A k \in 1..Len(all) :
                    IndexOf(all[k]) =
                        (IF doc.dialect = "waylines" THEN <<k - 1>> ELSE <<k>>)

\* ---------------------------------------------------------------------- C3
\* C3: after a successful run the output archive has the entry names of the
\* seed, in the same order, and every entry other than the two rewritten
\* members (the first named *waylines.wpml and the first named *template.kml)
\* has the bytes of the seed entry of that name.
C3_OtherEntriesUnchanged ==
    Succeeded =>
        /\ Len(out.download.entries) = Len(seed.entries)
        /\ \A n \in 1..Len(seed.entries) :
              /\ out.download.entries[n].name = seed.entries[n].name
              /\ seed.entries[n].name \notin {WpmlName, KmlName}
                    => out.download.entries[n].data = seed.entries[n].data

\* a successful run on a seed with further entries named *waylines.wpml and
\* *template.kml, copied as they are
C3_Witness ==
    /\ Succeeded
    /\ \E n \in 1..Len(seed.entries) :
          /\ LowerEndsWith(seed.entries[n].name, "waylines.wpml")
          /\ seed.entries[n].name # WpmlName
          /\ out.download.entries[n].data = seed.entries[n].data
    /\ \E n \in 1..Len(seed.entries) :
          /\ LowerEndsWith(seed.entries[n].name, "template.kml")
          /\ seed.entries[n].name # KmlName
    /\ \E n \in 1..Len(seed.entries) :
          /\ seed.entries[n].name = WpmlName
          /\ out.download.entries[n].data # seed.entries[n].data

\* ---------------------------------------------------------------------- C4
\* the children of a record that carry its altitude besides the coordinates
IsHeightField(c) ==
    c.ns = WPML /\ c.local \in {"executeHeight", "height", "ellipsoidHeight"}

\* C4 (as claimed): with an altitude override V, every waypoint record of both
\* rewritten documents has the altitude V in its coordinates and in each of
\* its height fields.
C4_AltitudeOverrideLaw ==
    (Succeeded /\ altitude_override.on) =>
        \A doc \in RewrittenDocs :
            LET all == FindWaypoints(doc.after)
            IN  \A k \in 1..Len(all) :
                  /\ Len(CoordsOf(all[k])) = 3
                        => CoordsOf(all[k])[3] = Fmt2(altitude_override.value)
                  /\ \A j \in 1..Len(all[k].kids) :
                        IsHeightField(all[k].kids[j])
                          => all[k].kids[j].text.nums
                                = <<Fmt2(altitude_override.value)>>

\* ---------------------------------------------------------------------- C5
\* C5 (as claimed): after a successful run, record k of waylines.wpml has the
\* 2D coordinates text "lon,lat" of the k-th point at 7 decimals and its
\* wpml:executeHeight is the altitude of the k-th point at 2 decimals.
C5_RoundTripWaylines ==
    Succeeded =>
        LET all == FindWaypoints(out.root)
        IN  /\ Len(all) = Len(out.points)
            /\ \A k \in 1..Len(all) :
                  /\ CoordsOf(all[k]) =
                        <<Fmt7(out.points[k].lon), Fmt7(out.points[k].lat)>>
                  /\ Child(all[k], WPML, "executeHeight").text.nums
                        = <<Fmt2(out.points[k].alt)>>

\* ---------------------------------------------------------------------- C6
\* what points_from_geojson makes of the uploaded files
Extracted == points_from_geojson(pts_file, altitude_override)

TwoPoints == PointsFile("ok", <<FeaturePointAlt, FeaturePointBare>>)

\* C6 (as claimed): a run with exactly 1 extracted point is aborted; a run
\* with exactly 1000 points succeeds (on a seed on which two points succeed);
\* a run with 1001 or more points is aborted.
C6_PointCountBoundaries ==
    (pressed /\ Extracted.raised = "") =>
        /\ Len(Extracted.pts) = 1 => Aborted
        /\ Len(Extracted.pts) = 1000 =>
              (Succeeded <=> Build(seed, TwoPoints, altitude_override).download.offered)
        /\ Len(Extracted.pts) >= 1001 => Aborted

\* ---------------------------------------------------------------------- C7
\* the seed has a waylines.wpml that parses
WaylinesParsed ==
    seed.kind = "zip" /\ WpmlName # "" /\ ~ParseFails(read(seed, WpmlName))

\* the run has at least two points and a waylines.wpml without any waypoint
\* record to take as the template
NoTemplateRun ==
    /\ pressed
    /\ WaylinesParsed
    /\ FindWaypoints(SeedTree(WpmlName)) = <<>>
    /\ Extracted.raised = ""
    /\ Len(Extracted.pts) >= 2

StageFails ==
    \/ seed.kind # "zip"
    \/ WpmlName = ""
    \/ KmlName = ""
    \/ ParseFails(read(seed, WpmlName))
    \/ ParseFails(read(seed, KmlName))
    \/ Extracted.raised # ""
    \/ FindDocument(SeedTree(WpmlName)) = None
    \/ FindDocument(SeedTree(KmlName)) = None

\* C8 (as claimed): a run in which a member is missing or not XML, the points
\* file is malformed or the Document of either member is not found ends with
\* an error message and offers no archive.
C8_EveryFailureAborts == (pressed /\ StageFails) => Aborted

\* ---------------------------------------------------------------------- C9
IsPointFeature(f) == f.geometry = "object" /\ Lower(f.gtype) = "point"

\* C9 (as claimed): points_from_geojson returns one triple per point feature,
\* in feature order, with the first two coordinates; any other feature, one
\* with a null geometry included, is skipped without an exception; without an
\* override the altitude is alt_m when the feature has it and 30 otherwise,
\* null or absent properties included.
C9_OneTriplePerPointFeature ==
    (pressed /\ WaylinesParsed /\ pts_file.kind = "ok") =>
        LET pf == SelectSeq(pts_file.features, IsPointFeature)
        IN  /\ Extracted.raised = ""
            /\ Len(Extracted.pts) = Len(pf)
            /\ \A k \in 1..Len(pf) :
                  /\ Extracted.pts[k].lon = pf[k].coordinates[1]
                  /\ Extracted.pts[k].lat = pf[k].coordinates[2]
                  /\ ~altitude_override.on =>
                        Extracted.pts[k].alt =
                            (IF pf[k].properties = "object" /\ pf[k].has_alt
                             THEN pf[k].alt_m ELSE DefaultAlt)

\* --------------------------------------------------------------------- C10
\* the tree without the waypoint records that are children of `folder`
RECURSIVE WithoutRouteRecords(_, _)
WithoutRouteRecords(e, folder) ==
    LET NotRecord(c) == ~IsWaypoint(c)
        kids == IF e.id = folder.id THEN SelectSeq(e.kids, NotRecord) ELSE e.kids
    IN  [e EXCEPT !.kids = [i \in 1..Len(kids) |-> WithoutRouteRecords(kids[i], folder)]]

\* C10 (as claimed): a rewritten document differs from the seed document only
\* in the waypoint records of its route folder, and the N new records are
\* children of that folder.
C10_OnlyRouteFolderChanges ==
    Succeeded =>
        \A doc \in RewrittenDocs :
            LET folder == RouteFolderOf(doc.before)
            IN  folder # None =>
                  /\ WithoutRouteRecords(doc.after, folder)
                        = WithoutRouteRecords(doc.before, folder)
                  /\ Len(RouteRecords(doc)) = Len(out.points)

\* --------------------------------------------------------------------- C11
\* the template record of a seed document: the last waypoint record of its
\* route folder; of the whole document when it has no such folder; None
\* without any record
LastRecordOf(tree) ==
    LET folder == RouteFolderOf(tree)
        recs   == IF folder # None THEN WaypointChildren(folder)
                  ELSE FindWaypoints(tree)
    IN  IF recs = <<>> THEN None ELSE recs[Len(recs)]

\* the fields a regenerated record may differ in: the coordinates text, the
\* index and the execution height
IsRewrittenField(e) ==
    \/ e.ns = KML /\ e.local = "coordinates"
    \/ e.ns = WPML /\ e.local \in {"index", "executeHeight"}

\* the structure of a record: its elements in their order, without identity
\* and without the text of the rewritten fields
RECURSIVE Structure(_)
Structure(e) ==
    [e EXCEPT !.id = 0,
              !.text = IF IsRewrittenField(e) THEN NoText ELSE e.text,
              !.kids = [i \in 1..Len(e.kids) |-> Structure(e.kids[i])]]

\* C11 (as claimed): after a successful run every regenerated record of a
\* rewritten document has the children of the last record the seed document
\* had in its route folder, in the same order, apart from the coordinates
\* text, the index and the execution height, and none of its elements is an
\* element of the seed.
C11_CloneOfLastRecord ==
    Succeeded =>
        \A doc \in RewrittenDocs :
            LET template == LastRecordOf(doc.before)
                all      == FindWaypoints(doc.after)
            IN  template # None =>
                  \A k \in 1..Len(all) :
                      /\ Structure(all[k]) = Structure(template)
                      /\ \A j \in 1..Len(Iter(all[k])) : Iter(all[k])[j].id = 0

====
